---- MODULE Spec2Model ----
(***************************************************************************)
(* Model of src/src/rfc822ish.rs: the METADATA / PKG-INFO header parser    *)
(* RFC822ish::parse (the nom combinator parser parse_metadata) and the     *)
(* CoreMetadata::parse view built on it.                                   *)
(*                                                                         *)
(* A string is a sequence of code points.  A parser is an operator taking  *)
(* the whole input s and a 1-based position i and returning a record       *)
(* [ok, pos]: ok says whether the combinator matched and pos is the        *)
(* position of the first character it left unconsumed.  Option<T> is a     *)
(* sequence of at most one element: None is <<>>, Some(b) is <<b>>.        *)
(***************************************************************************)
EXTENDS Integers, Sequences, FiniteSets, TLC

VARIABLES data, rfc, core

vars == <<data, rfc, core>>

\* ---------------------------------------------------------------- bounds
MaxLen == 6
MaxPieces == 3

\* ------------------------------------------------------------ characters
CR == 13
LF == 10
SP == 32
TAB == 9
COLON == 58

None == <<>>
Some(b) == <<b>>

\* --------------------------------------------------- parser result shapes
Err == [ok |-> FALSE, pos |-> 0]
Ok(p) == [ok |-> TRUE, pos |-> p]

\* nom_supreme tag::complete::tag(t)
tag(t, s, i) ==
    IF i + Len(t) - 1 <= Len(s) /\ SubSeq(s, i, i + Len(t) - 1) = t
    THEN Ok(i + Len(t))
    ELSE Err

\* Parser::or: the second parser runs only when the first fails
or(a, b) == IF a.ok THEN a ELSE b

\* fn line_ending: tag("\r\n").or(tag("\r")).or(tag("\n"))
line_ending(s, i) ==
    or(tag(<<CR, LF>>, s, i), or(tag(<<CR>>, s, i), tag(<<LF>>, s, i)))

\* A character test that lets the space through (lower bound 0o40).
is_field_name_char_space(c) == 32 <= c /\ c <= 126 /\ c # COLON

\* fn is_field_name_char: 0o41 <= i && i <= 0o176 && c != ':'
is_field_name_char(c) == 33 <= c /\ c <= 126 /\ c # COLON

\* take_while1, is_a and is_not fail on a run [i, e) of no character
at_least_one(i, e) == IF e = i THEN Err ELSE Ok(e)

RECURSIVE take_while_field_name_char(_, _)
take_while_field_name_char(s, i) ==
    IF i <= Len(s) /\ is_field_name_char(s[i])
    THEN take_while_field_name_char(s, i + 1)
    ELSE i

\* take_while1(is_field_name_char): one or more field name characters
field_name(s, i) == at_least_one(i, take_while_field_name_char(s, i))

RECURSIVE take_while_space_tab(_, _)
take_while_space_tab(s, i) ==
    IF i <= Len(s) /\ s[i] \in {SP, TAB}
    THEN take_while_space_tab(s, i + 1)
    ELSE i

\* is_a(" \t"): one or more spaces or tabs
is_a_space_tab(s, i) == at_least_one(i, take_while_space_tab(s, i))

\* one_of(" \t"): one space or tab
one_of_space_tab(s, i) ==
    IF i <= Len(s) /\ s[i] \in {SP, TAB} THEN Ok(i + 1) ELSE Err

\* Parser::and with is_a(" \t") as second parser, c the first one's result
and_is_a(s, c) == IF ~c.ok THEN Err ELSE is_a_space_tab(s, c.pos)

\* Parser::and with one_of(" \t") as second parser, l the first one's result
and_one_of(s, l) == IF ~l.ok THEN Err ELSE one_of_space_tab(s, l.pos)

\* tag(":").and(is_a(" \t"))
field_separator(s, i) == and_is_a(s, tag(<<COLON>>, s, i))

RECURSIVE take_till_cr_lf(_, _)
take_till_cr_lf(s, i) ==
    IF i <= Len(s) /\ s[i] \notin {CR, LF}
    THEN take_till_cr_lf(s, i + 1)
    ELSE i

\* is_not("\r\n"): one or more characters other than CR and LF
value_line_piece(s, i) == at_least_one(i, take_till_cr_lf(s, i))

\* line_ending.and(one_of(" \t"))
continuation_marker(s, i) == and_one_of(s, line_ending(s, i))

\* The loop of nom::multi::separated_list1 after its first element, input
\* at i: a separator (result m) and an element (result v) are taken
\* together or not at all.
RECURSIVE separated_list1_loop(_, _)
separated_list1_element(s, i, v) ==
    IF ~v.ok THEN i ELSE separated_list1_loop(s, v.pos)

separated_list1_sep(s, i, m) ==
    IF ~m.ok THEN i
    ELSE separated_list1_element(s, i, value_line_piece(s, m.pos))

separated_list1_loop(s, i) ==
    separated_list1_sep(s, i, continuation_marker(s, i))

\* separated_list1 on its first element (result v)
separated_list1_first(s, v) ==
    IF ~v.ok THEN Err ELSE Ok(separated_list1_loop(s, v.pos))

\* separated_list1(continuation_marker, value_line_piece).recognize()
field_value(s, i) == separated_list1_first(s, value_line_piece(s, i))

FieldErr == [ok |-> FALSE, pos |-> 0, name |-> <<>>, value |-> <<>>]

\* separated_pair after its three parsers: name n, separator p, value v
separated_pair_value(s, i, n, p, v) ==
    IF ~v.ok THEN FieldErr
    ELSE [ok |-> TRUE, pos |-> v.pos,
          name |-> SubSeq(s, i, n.pos - 1),
          value |-> SubSeq(s, p.pos, v.pos - 1)]

separated_pair_sep(s, i, n, p) ==
    IF ~p.ok THEN FieldErr
    ELSE separated_pair_value(s, i, n, p, field_value(s, p.pos))

separated_pair_name(s, i, n) ==
    IF ~n.ok THEN FieldErr
    ELSE separated_pair_sep(s, i, n, field_separator(s, n.pos))

\* separated_pair(field_name, field_separator, field_value)
field(s, i) == separated_pair_name(s, i, field_name(s, i))

\* ParserExt::terminated: the field f, then the line ending l
terminated_end(f, l) == IF ~l.ok THEN FieldErr ELSE [f EXCEPT !.pos = l.pos]

terminated(s, f) ==
    IF ~f.ok THEN FieldErr ELSE terminated_end(f, line_ending(s, f.pos))

\* field.terminated(line_ending)
field_terminated(s, i) == terminated(s, field(s, i))

FieldsErr == [ok |-> FALSE, pos |-> 0, out |-> <<>>]

\* The loop of nom::multi::many1 after its first element, input at i, f the
\* result of one more run of the parser.
RECURSIVE many1_loop(_, _, _)
many1_next(s, i, acc, f) ==
    IF ~f.ok THEN [ok |-> TRUE, pos |-> i, out |-> acc]
    ELSE many1_loop(s, f.pos, Append(acc, <<f.name, f.value>>))

many1_loop(s, i, acc) == many1_next(s, i, acc, field_terminated(s, i))

\* many1 on its first element (result f)
many1_first(s, f) ==
    IF ~f.ok THEN FieldsErr
    ELSE many1_loop(s, f.pos, << <<f.name, f.value>> >>)

\* many1(field.terminated(line_ending))
fields(s, i) == many1_first(s, field_terminated(s, i))

\* A rest that drops its first character.
preceded_by_rest_skip(s, l) ==
    IF ~l.ok THEN FieldsErr
    ELSE [ok |-> TRUE, pos |-> Len(s) + 1,
          out |-> SubSeq(s, l.pos + 1, Len(s))]

\* A rest that needs at least one character.
preceded_by_rest_nonempty(s, l) ==
    IF ~l.ok \/ l.pos > Len(s) THEN FieldsErr
    ELSE [ok |-> TRUE, pos |-> Len(s) + 1, out |-> SubSeq(s, l.pos, Len(s))]

\* rest.preceded_by(..): after the line ending l, the rest of the input
preceded_by_rest(s, l) ==
    IF ~l.ok THEN FieldsErr
    ELSE [ok |-> TRUE, pos |-> Len(s) + 1, out |-> SubSeq(s, l.pos, Len(s))]

\* rest.preceded_by(line_ending)
body(s, i) == preceded_by_rest(s, line_ending(s, i))

MetaErr == [ok |-> FALSE, pos |-> 0, fields_vec |-> <<>>, body |-> None]

\* body.opt() as second half of the pair: no body is None, not an error
opt(f, b) ==
    IF b.ok
    THEN [ok |-> TRUE, pos |-> b.pos, fields_vec |-> f.out,
          body |-> Some(b.out)]
    ELSE [ok |-> TRUE, pos |-> f.pos, fields_vec |-> f.out, body |-> None]

\* nom::sequence::pair, f the result of its first parser
pair(s, f) == IF ~f.ok THEN MetaErr ELSE opt(f, body(s, f.pos))

\* nom::sequence::pair(fields, body.opt())
metadata(s) == pair(s, fields(s, 1))

\* A final parser that returns whatever was parsed, input left over or not.
all_consuming_partial(s, m) == m

\* final_parser: the parser must consume the whole input
all_consuming(s, m) == IF m.ok /\ m.pos = Len(s) + 1 THEN m ELSE MetaErr

\* let mut parse = final_parser(metadata); parse(input)
final_parser(s) == all_consuming(s, metadata(s))

\* An insertion that replaces the values recorded so far.
entry_push_overwrite(f, name, value) ==
    [k \in DOMAIN f \cup {name} |-> IF k = name THEN <<value>> ELSE f[k]]

\* fields.entry(name).or_insert(Vec::new()).push(value)
entry_push(f, name, value) ==
    IF name \in DOMAIN f
    THEN [f EXCEPT ![name] = Append(@, value)]
    ELSE [k \in DOMAIN f \cup {name} |->
             IF k = name THEN <<value>> ELSE f[k]]

\* Fields::new()
Fields_new == [k \in {} |-> <<>>]

\* for (field_name, field_value) in fields_vec { ...push... }
RECURSIVE collect(_, _, _)
collect(fv, j, f) ==
    IF j > Len(fv) THEN f
    ELSE collect(fv, j + 1, entry_push(f, fv[j][1], fv[j][2]))

ParseErr == [ok |-> FALSE, fields |-> Fields_new, body |-> None]

\* parse_metadata after parse(input)?: the map is built from the field list
build_rfc822ish(m) ==
    IF ~m.ok THEN ParseErr
    ELSE [ok |-> TRUE, fields |-> collect(m.fields_vec, 1, Fields_new),
          body |-> m.body]

\* parser_internals::parse_metadata
parse_metadata(input) == build_rfc822ish(final_parser(input))

\* RFC822ish::parse
RFC822ish_parse(d) == parse_metadata(d)

Description == <<68, 101, 115, 99, 114, 105, 112, 116, 105, 111, 110>>

CoreErr == [ok |-> FALSE, fields |-> Fields_new]

\* A fold that puts the body before the explicit Description values.
fold_body_prepend(r) ==
    IF ~r.ok THEN CoreErr
    ELSE IF r.body # None
         THEN [ok |-> TRUE,
               fields |-> [k \in DOMAIN r.fields \cup {Description} |->
                   IF k # Description THEN r.fields[k]
                   ELSE IF k \in DOMAIN r.fields
                        THEN <<r.body[1]>> \o r.fields[k]
                        ELSE <<r.body[1]>>]]
         ELSE [ok |-> TRUE, fields |-> r.fields]

\* CoreMetadata::parse after RFC822ish::parse(data)?, r its result
fold_body(r) ==
    IF ~r.ok THEN CoreErr
    ELSE IF r.body # None
         THEN [ok |-> TRUE,
               fields |-> entry_push(r.fields, Description, r.body[1])]
         ELSE [ok |-> TRUE, fields |-> r.fields]

\* CoreMetadata::parse
CoreMetadata_parse(d) == fold_body(RFC822ish_parse(d))

\* ------------------------------------------------------------ the inputs
\* Every string of at most MaxLen characters over a small alphabet holding
\* each character class of the grammar ('A' and 'x' are field name
\* characters).
Alphabet == {CR, LF, SP, COLON, 65, 120}

RawStrings == UNION {[1..n -> Alphabet] : n \in 0..MaxLen}

\* Documents assembled from at most MaxPieces pieces: whole header lines,
\* continuation lines, blank lines and body text.
Pieces ==
    { <<65, COLON, SP, 120, LF>>,                 \* "A: x\n"
      <<65, COLON, TAB, SP, 121, LF>>,            \* "A:\t y\n"
      Description \o <<COLON, SP, 120, LF>>,      \* "Description: x\n"
      <<65, COLON, SP, 120>>,                     \* "A: x"
      <<65, COLON, 120, LF>>,                     \* "A:x\n"
      <<65, COLON, SP, LF>>,                      \* "A: \n"
      <<33, 126, COLON, SP, 120, SP, 233, LF>>,   \* "!~: x \xe9\n"
      <<65, 127, COLON, SP, 120, LF>>,            \* "A\x7f: x\n"
      <<SP, SP, 121, LF>>,                        \* "  y\n"
      <<TAB, 121, CR>>,                           \* "\ty\r"
      <<SP, LF>>,                                 \* " \n"
      <<LF>>,                                     \* "\n"
      <<CR, LF>>,                                 \* "\r\n"
      <<120>>,                                    \* "x"
      <<120, LF, 121, LF>> }                      \* "x\ny\n"

RECURSIVE Docs(_)
Docs(n) ==
    IF n = 0 THEN {<<>>}
    ELSE LET prev == Docs(n - 1)
         IN  prev \cup {d \o l : d \in prev, l \in Pieces}

Inputs == RawStrings \cup Docs(MaxPieces)

\* ----------------------------------------------------------- the machine
NotRun == [ok |-> FALSE, fields |-> Fields_new, body |-> None, run |-> FALSE]
Ran(r) == [ok |-> r.ok, fields |-> r.fields, body |-> r.body, run |-> TRUE]

CoreNotRun == [ok |-> FALSE, fields |-> Fields_new, run |-> FALSE]
CoreRan(r) == [ok |-> r.ok, fields |-> r.fields, run |-> TRUE]

Init ==
    /\ data \in Inputs
    /\ rfc = NotRun
    /\ core = CoreNotRun

\* let got = RFC822ish::parse(data)
ParseRFC822ish ==
    /\ ~rfc.run
    /\ rfc' = Ran(RFC822ish_parse(data))
    /\ UNCHANGED <<data, core>>

\* let got = CoreMetadata::parse(data)
ParseCoreMetadata ==
    /\ ~core.run
    /\ core' = CoreRan(CoreMetadata_parse(data))
    /\ UNCHANGED <<data, rfc>>

Next == ParseRFC822ish \/ ParseCoreMetadata

Spec == Init /\ [][Next]_vars


\* ------------------------------------------------- vocabulary of the claims
\* A field name character as the format defines it: 0x21-0x39 or 0x3B-0x7E.
NameChar(c) == c \in 33..57 \/ c \in 59..126

IsEol(c) == c \in {CR, LF}
IsBlank(c) == c \in {SP, TAB}

\* Lengths n of a leading run of field name characters followed by a colon
\* (at most one, since a name holds no colon).
NameLens(d) ==
    {n \in 1..(Len(d) - 1) :
        /\ \A j \in 1..n : NameChar(d[j])
        /\ d[n + 1] = COLON}

StartsWithNameColon(d) == NameLens(d) # {}

NameLen(d) == CHOOSE n \in NameLens(d) : TRUE

\* First position at or after i holding no space or tab.
RECURSIVE SkipBlanks(_, _)
SkipBlanks(d, i) ==
    IF i <= Len(d) /\ IsBlank(d[i]) THEN SkipBlanks(d, i + 1) ELSE i

\* Position just after the line-ending token that starts at i.
EolEnd(d, i) ==
    IF d[i] = CR /\ i < Len(d) /\ d[i + 1] = LF THEN i + 2 ELSE i + 1

\* Position of the first line ending at or after i that is not followed by
\* a space or tab, Len(d)+1 when there is none.
RECURSIVE ValueEnd(_, _)
ValueEnd(d, i) ==
    IF i > Len(d) THEN Len(d) + 1
    ELSE IF ~IsEol(d[i]) THEN ValueEnd(d, i + 1)
    ELSE LET n == EolEnd(d, i)
         IN  IF n <= Len(d) /\ IsBlank(d[n]) THEN ValueEnd(d, n + 1) ELSE i

\* The header section as the parser reads it, and the fields it holds.
Header == fields(data, 1)

\* Values of the fields named k, in their order in the field list fv.
RECURSIVE ValuesNamed(_, _)
ValuesNamed(fv, k) ==
    IF fv = <<>> THEN <<>>
    ELSE IF fv[1][1] = k THEN <<fv[1][2]>> \o ValuesNamed(Tail(fv), k)
    ELSE ValuesNamed(Tail(fv), k)

\* The map with one key.
Single(k, v) == [x \in {k} |-> v]

\* f with b recorded as the last Description value.
Folded(f, b) ==
    [k \in DOMAIN f \cup {Description} |->
        IF k # Description THEN f[k]
        ELSE IF k \in DOMAIN f THEN f[k] \o <<b>> ELSE <<b>>]

\* ----------------------------------------------------------------- C1
\* data is a sequence of fields whose last value runs to the end of input:
\* it does not end in a line ending, and with one appended it is a header
\* section and nothing else.
C1_NoFinalEnding ==
    /\ Len(data) > 0
    /\ ~IsEol(data[Len(data)])
    /\ RFC822ish_parse(data \o <<LF>>).ok
    /\ RFC822ish_parse(data \o <<LF>>).body = None

\* C1: an input whose last field has no line ending after it is accepted,
\* with the field map of the same input ended by a line ending and no body.
C1_NoTrailingNewlineAccepted ==
    (rfc.run /\ C1_NoFinalEnding) =>
        /\ rfc.ok
        /\ rfc.fields = RFC822ish_parse(data \o <<LF>>).fields
        /\ rfc.body = None

\* ----------------------------------------------------------------- C2
\* C2: a second line ending after the last field followed by more input
\* makes the rest of the input, verbatim, the body; an input that ends
\* right after the last field's line ending has no body.
C2_BodyExtraction ==
    (rfc.run /\ Header.ok) =>
        LET l == line_ending(data, Header.pos)
        IN  /\ (l.ok /\ l.pos <= Len(data)) =>
                   /\ rfc.ok
                   /\ rfc.body = Some(SubSeq(data, l.pos, Len(data)))
            /\ (Header.pos = Len(data) + 1) =>
                   /\ rfc.ok
                   /\ rfc.body = None

\* A body of several lines, ended by a line ending, was extracted.
C2_Witness ==
    /\ rfc.run /\ rfc.ok /\ rfc.body # None
    /\ Len(rfc.body[1]) >= 3
    /\ IsEol(rfc.body[1][Len(rfc.body[1])])
    /\ \E j \in 1..(Len(rfc.body[1]) - 2) : IsEol(rfc.body[1][j])

\* ----------------------------------------------------------------- C3
\* C3: in an accepted input every key maps to the values of the fields of
\* that name in their order of appearance, the keys are the names that
\* occur, and no key maps to the empty sequence.
C3_DuplicatesAccumulate ==
    (rfc.run /\ rfc.ok) =>
        /\ DOMAIN rfc.fields = {Header.out[j][1] : j \in 1..Len(Header.out)}
        /\ \A k \in DOMAIN rfc.fields :
              /\ rfc.fields[k] = ValuesNamed(Header.out, k)
              /\ rfc.fields[k] # <<>>

\* Two fields of one name with different values and a field of another
\* name in between.
C3_Witness ==
    /\ rfc.run /\ rfc.ok
    /\ Len(Header.out) = 3
    /\ Header.out[1][1] = Header.out[3][1]
    /\ Header.out[1][1] # Header.out[2][1]
    /\ Header.out[1][2] # Header.out[3][2]
    /\ Len(rfc.fields[Header.out[1][1]]) = 2

\* ----------------------------------------------------------------- C4
\* data is one field, name, colon and at least one blank, whose value starts
\* with a character that is no line ending, holds a continuation and is
\* ended by a line ending that ends the input.
C4_OneContinuedField ==
    /\ StartsWithNameColon(data)
    /\ LET v == SkipBlanks(data, NameLen(data) + 2)
           e == ValueEnd(data, v)
       IN  /\ v > NameLen(data) + 2
           /\ v <= Len(data) /\ ~IsEol(data[v])
           /\ e <= Len(data)
           /\ EolEnd(data, e) = Len(data) + 1
           /\ \E j \in v..(e - 1) : IsEol(data[j])

\* C4: a line ending followed by a space or tab does not end the value: the
\* value is the input from the first character after the separator up to
\* the first line ending not followed by a space or tab.
C4_ContinuationVerbatim ==
    (rfc.run /\ C4_OneContinuedField) =>
        LET v == SkipBlanks(data, NameLen(data) + 2)
            e == ValueEnd(data, v)
        IN  /\ rfc.ok
            /\ rfc.fields =
                   Single(SubSeq(data, 1, NameLen(data)),
                          <<SubSeq(data, v, e - 1)>>)

\* ----------------------------------------------------------------- C5
\* C5: an input that does not begin with one or more field name characters
\* followed by a colon is an error.
C5_RejectsMissingFieldName ==
    (rfc.run /\ ~StartsWithNameColon(data)) => ~rfc.ok

\* The field name scan stopped at a character that is no colon, with a
\* colon further on.
C5_Witness ==
    /\ rfc.run /\ ~rfc.ok
    /\ Len(data) >= 3
    /\ NameChar(data[1])
    /\ ~StartsWithNameColon(data)
    /\ \E j \in 2..Len(data) : data[j] = COLON

\* ----------------------------------------------------------------- C6
\* data is name, colon, one space, a value without line ending characters
\* that does not start with a space or tab (it may be empty), and "\n".
\* Spaces and tabs at the start of a value belong to the separator, which
\* takes them all, so they are left out here.
C6_SingleLine ==
    /\ StartsWithNameColon(data)
    /\ Len(data) >= NameLen(data) + 3
    /\ data[NameLen(data) + 2] = SP
    /\ data[Len(data)] = LF
    /\ ~IsBlank(data[NameLen(data) + 3])
    /\ \A j \in (NameLen(data) + 3)..(Len(data) - 1) : ~IsEol(data[j])

C6_Name == SubSeq(data, 1, NameLen(data))
C6_Value == SubSeq(data, NameLen(data) + 3, Len(data) - 1)

\* C6: every value without line ending characters, the empty one included,
\* comes back unchanged as the only value of its field.
C6_RoundTripAnyValue ==
    (rfc.run /\ C6_SingleLine) =>
        /\ rfc.ok
        /\ rfc.fields = Single(C6_Name, <<C6_Value>>)

\* ----------------------------------------------------------------- C7
\* data is name, colon, any number of blanks, a value that is not empty,
\* starts with no blank and holds no line ending character, and "\n".
C7_OneField ==
    /\ StartsWithNameColon(data)
    /\ data[Len(data)] = LF
    /\ SkipBlanks(data, NameLen(data) + 2) < Len(data)
    /\ \A j \in (NameLen(data) + 2)..(Len(data) - 1) : ~IsEol(data[j])

\* C7: the separator is a colon and zero or more blanks, all discarded.
C7_SeparatorZeroOrMore ==
    (rfc.run /\ C7_OneField) =>
        /\ rfc.ok
        /\ rfc.fields =
               Single(SubSeq(data, 1, NameLen(data)),
                      <<SubSeq(data, SkipBlanks(data, NameLen(data) + 2),
                               Len(data) - 1)>>)

\* ----------------------------------------------------------------- C8
\* C8: CoreMetadata::parse fails exactly when RFC822ish::parse does; without
\* a body its map is the parsed map, with a body it is the parsed map with
\* the body as the last Description value.
C8_DescriptionFolding ==
    (rfc.run /\ core.run) =>
        /\ core.ok = rfc.ok
        /\ rfc.ok =>
              IF rfc.body = None
              THEN core.fields = rfc.fields
              ELSE core.fields = Folded(rfc.fields, rfc.body[1])

\* A body equal to the value of an explicit Description header was folded.
C8_Witness ==
    /\ rfc.run /\ core.run /\ rfc.ok /\ core.ok
    /\ rfc.body # None
    /\ Description \in DOMAIN rfc.fields
    /\ rfc.fields[Description] = <<rfc.body[1]>>
    /\ Len(core.fields[Description]) = 2

\* ----------------------------------------------------------------- C9
\* C9: an accepted input was consumed whole, and fields followed by a rest
\* that is neither a body nor a field are an error.
C9_NoPartialResult ==
    rfc.run =>
        /\ rfc.ok => metadata(data).pos = Len(data) + 1
        /\ (/\ Header.ok
            /\ Header.pos <= Len(data)
            /\ ~IsEol(data[Header.pos])) => ~rfc.ok

\* Two fields were read and the rest is neither a body nor a field.
C9_Witness ==
    /\ rfc.run /\ ~rfc.ok
    /\ Header.ok
    /\ Len(Header.out) = 2
    /\ Header.pos <= Len(data)
    /\ ~IsEol(data[Header.pos])

\* ----------------------------------------------------------------- C10
\* data is a header section, one more line ending, and the end of input.
C10_BlankLineThenEnd ==
    /\ Header.ok
    /\ line_ending(data, Header.pos).ok
    /\ line_ending(data, Header.pos).pos = Len(data) + 1

\* C10 as stated: a blank line and then the end of input give no body.
C10_BlankLineNoBody ==
    (rfc.run /\ C10_BlankLineThenEnd) =>
        /\ rfc.ok
        /\ rfc.body = None

\* C10 amended: a blank line and then the end of input give the header's
\* fields and the empty body.
C10_BlankLineEmptyBody ==
    (rfc.run /\ C10_BlankLineThenEnd) =>
        /\ rfc.ok
        /\ rfc.fields = collect(Header.out, 1, Fields_new)
        /\ rfc.body = Some(<<>>)

\* A header with a continued value, a blank line and the end of input.
C10_Witness ==
    /\ rfc.run /\ rfc.ok /\ C10_BlankLineThenEnd
    /\ \E j \in 1..Len(Header.out[1][2]) : IsEol(Header.out[1][2][j])
====
